---- MODULE Spec2Model ----
(***************************************************************************)
(* Model of src/src/xray_balancer.py (class ConfigToXray).                 *)
(*                                                                         *)
(* A Python str is a sequence of one-character strings, so that strip,     *)
(* lower, startswith, replace, split, int, base64 and the URL functions    *)
(* are computed character by character as the interpreter computes them.   *)
(* A Python value that may be None, a str, an int or a dict is a record    *)
(* tagged by its field t.                                                  *)
(***************************************************************************)
EXTENDS Integers, Sequences, FiniteSets, TLC

(***************************************************************************)
(* Python values                                                           *)
(***************************************************************************)
None == [t |-> "None"]

Str(s) == [t |-> "str", s |-> s]

Num(n) == [t |-> "int", n |-> n]

Dict(items) == [t |-> "dict", items |-> items]

\* bool(v): None, 0, "" and {} are falsy
Truthy(v) ==
  CASE v.t = "None" -> FALSE
    [] v.t = "str"  -> v.s # <<>>
    [] v.t = "int"  -> v.n # 0
    [] v.t = "dict" -> v.items # <<>>
    [] OTHER        -> TRUE

(***************************************************************************)
(* str methods                                                             *)
(***************************************************************************)
UpperChars ==
  <<"A","B","C","D","E","F","G","H","I","J","K","L","M",
    "N","O","P","Q","R","S","T","U","V","W","X","Y","Z">>

LowerChars ==
  <<"a","b","c","d","e","f","g","h","i","j","k","l","m",
    "n","o","p","q","r","s","t","u","v","w","x","y","z">>

DigitChars == <<"0","1","2","3","4","5","6","7","8","9">>

\* position of c in the table tbl, 0 when absent
IndexIn(tbl, c) ==
  IF \E i \in 1..Len(tbl) : tbl[i] = c
  THEN CHOOSE i \in 1..Len(tbl) : tbl[i] = c
  ELSE 0

IsSpace(c) == c \in {" ", "\t", "\n", "\r"}

RECURSIVE lstrip(_)
lstrip(s) == IF s # <<>> /\ IsSpace(Head(s)) THEN lstrip(Tail(s)) ELSE s

RECURSIVE rstrip(_)
rstrip(s) ==
  IF s # <<>> /\ IsSpace(s[Len(s)]) THEN rstrip(SubSeq(s, 1, Len(s) - 1)) ELSE s

strip(s) == rstrip(lstrip(s))

LowerChar(c) ==
  LET k == IndexIn(UpperChars, c) IN IF k = 0 THEN c ELSE LowerChars[k]

lower(s) == [i \in 1..Len(s) |-> LowerChar(s[i])]

\* s[i-1:j] of Python: a slice never fails, it is cut to the string
Slice(s, i, j) ==
  SubSeq(s, IF i < 1 THEN 1 ELSE i, IF j > Len(s) THEN Len(s) ELSE j)

startswith(s, p) == Len(s) >= Len(p) /\ SubSeq(s, 1, Len(p)) = p

\* s.find(p) + 1: the first position where p occurs in s, 0 when it does not
find(s, p) ==
  LET hits == {i \in 1..(Len(s) - Len(p) + 1) : SubSeq(s, i, i + Len(p) - 1) = p}
  IN IF hits = {} THEN 0 ELSE CHOOSE i \in hits : \A j \in hits : i <= j

\* s.rfind(p) + 1
rfind(s, p) ==
  LET hits == {i \in 1..(Len(s) - Len(p) + 1) : SubSeq(s, i, i + Len(p) - 1) = p}
  IN IF hits = {} THEN 0 ELSE CHOOSE i \in hits : \A j \in hits : i >= j

Contains(s, p) == find(s, p) # 0

RECURSIVE replace(_, _, _)
replace(s, old, new) ==
  LET k == find(s, old)
  IN IF k = 0 THEN s
     ELSE SubSeq(s, 1, k - 1) \o new
          \o replace(SubSeq(s, k + Len(old), Len(s)), old, new)

RECURSIVE split(_, _)
split(s, sep) ==
  LET k == find(s, sep)
  IN IF k = 0 THEN <<s>>
     ELSE <<SubSeq(s, 1, k - 1)>> \o split(SubSeq(s, k + Len(sep), Len(s)), sep)

\* s.split(sep, 1)
split1(s, sep) ==
  LET k == find(s, sep)
  IN IF k = 0 THEN <<s>>
     ELSE <<SubSeq(s, 1, k - 1), SubSeq(s, k + Len(sep), Len(s))>>

\* s.rsplit(sep, 1)
rsplit1(s, sep) ==
  LET k == rfind(s, sep)
  IN IF k = 0 THEN <<s>>
     ELSE <<SubSeq(s, 1, k - 1), SubSeq(s, k + Len(sep), Len(s))>>

\* s.rstrip('=')
RECURSIVE rstripPad(_)
rstripPad(s) ==
  IF s # <<>> /\ s[Len(s)] = "=" THEN rstripPad(SubSeq(s, 1, Len(s) - 1)) ELSE s

RECURSIVE DigitsVal(_)
DigitsVal(s) ==
  IF s = <<>> THEN 0
  ELSE DigitsVal(SubSeq(s, 1, Len(s) - 1)) * 10 + (IndexIn(DigitChars, s[Len(s)]) - 1)

IsDigits(s) == s # <<>> /\ \A i \in 1..Len(s) : IndexIn(DigitChars, s[i]) # 0

\* int(s) of a str: surrounding whitespace and one sign are accepted, then
\* decimal digits; anything else raises ValueError.  Python integers are
\* unbounded, so there is no wrap-around.
int(s) ==
  LET Digits(neg, body) ==
        IF IsDigits(body)
        THEN [exc |-> "", n |-> IF neg THEN 0 - DigitsVal(body) ELSE DigitsVal(body)]
        ELSE [exc |-> "ValueError", n |-> 0]
      Signed(u) ==
        IF u # <<>> /\ Head(u) \in {"+", "-"}
        THEN Digits(Head(u) = "-", Tail(u))
        ELSE Digits(FALSE, u)
  IN Signed(strip(s))

(***************************************************************************)
(* Bytes and characters.  The alphabet is ASCII: a byte of 32..126 is its  *)
(* printable character, tab, newline and return are themselves, any other  *)
(* control byte is the token "<ctl>" (the backquote, which a TLA+ string   *)
(* cannot hold, is "<bq>").  A byte of 128 or more never occurs  *)
(* in a valid one-byte UTF-8 sequence; bytes.decode('utf-8') is modelled   *)
(* as raising UnicodeDecodeError on it and errors='replace' as yielding    *)
(* the token "<U+FFFD>".                                                   *)
(***************************************************************************)
AsciiPrintable ==
  <<" ","!","\"","#","$","%","&","'","(",")","*","+",",","-",".","/",
    "0","1","2","3","4","5","6","7","8","9",":",";","<","=",">","?",
    "@","A","B","C","D","E","F","G","H","I","J","K","L","M","N","O",
    "P","Q","R","S","T","U","V","W","X","Y","Z","[","\\","]","^","_",
    "<bq>","a","b","c","d","e","f","g","h","i","j","k","l","m","n","o",
    "p","q","r","s","t","u","v","w","x","y","z","{","|","}","~">>

Chr(b) ==
  CASE b >= 32 /\ b <= 126 -> AsciiPrintable[b - 31]
    [] b = 9               -> "\t"
    [] b = 10              -> "\n"
    [] b = 13              -> "\r"
    [] b >= 128            -> "<U+FFFD>"
    [] OTHER               -> "<ctl>"

\* bytes.decode('utf-8')
DecodeUtf8(bytes) ==
  IF \E i \in 1..Len(bytes) : bytes[i] >= 128
  THEN [exc |-> "UnicodeDecodeError", s |-> <<>>]
  ELSE [exc |-> "", s |-> [i \in 1..Len(bytes) |-> Chr(bytes[i])]]

B64Alphabet ==
  <<"A","B","C","D","E","F","G","H","I","J","K","L","M","N","O","P",
    "Q","R","S","T","U","V","W","X","Y","Z","a","b","c","d","e","f",
    "g","h","i","j","k","l","m","n","o","p","q","r","s","t","u","v",
    "w","x","y","z","0","1","2","3","4","5","6","7","8","9","+","/">>

\* binascii.a2b_base64 without strict mode, as base64.b64decode calls it.
\* Characters outside the alphabet are discarded.  With quad the number of
\* data characters read so far modulo 4, a pad that completes the quad (the
\* first = at quad 3, the second = at quad 2) ends the parse and what
\* follows is not read; otherwise an incomplete quad at the end raises
\* binascii.Error.
b64decode(s) ==
  LET IsData(i)    == IndexIn(B64Alphabet, s[i]) # 0
      Quad(i)      == Cardinality({j \in 1..(i - 1) : IsData(j)}) % 4
      PadBefore(i) == \E j \in 1..(i - 1) :
                         s[j] = "=" /\ \A m \in (j + 1)..(i - 1) : ~IsData(m)
      Sextet(a, b, r) == CASE r = 0 -> a * 4 + (b \div 16)
                           [] r = 1 -> (a % 16) * 16 + (b \div 4)
                           [] r = 2 -> (a % 4) * 64 + b
      Byte(vals, k) == Sextet(vals[4 * ((k - 1) \div 3) + 1 + ((k - 1) % 3)],
                              vals[4 * ((k - 1) \div 3) + 2 + ((k - 1) % 3)],
                              (k - 1) % 3)
      Bytes(vals, nbytes) == [k \in 1..nbytes |-> Byte(vals, k)]
      Decode(stopped, vals) ==
        IF ~stopped /\ Len(vals) % 4 # 0
        THEN [exc |-> "binascii.Error", bytes |-> <<>>]
        ELSE [exc |-> "",
              bytes |-> Bytes(vals, (Len(vals) \div 4) * 3
                                    + (IF Len(vals) % 4 = 0 THEN 0 ELSE (Len(vals) % 4) - 1))]
      Upto(stopped, stop) ==
        Decode(stopped,
               SelectSeq([i \in 1..(stop - 1) |-> IndexIn(B64Alphabet, s[i]) - 1],
                         LAMBDA v : v >= 0))
      Stops(stops) ==
        IF stops = {} THEN Upto(FALSE, Len(s) + 1)
        ELSE Upto(TRUE, CHOOSE i \in stops : \A j \in stops : i <= j)
  IN Stops({i \in 1..Len(s) :
              s[i] = "=" /\ (Quad(i) = 3 \/ (Quad(i) = 2 /\ PadBefore(i)))})

HexChars == <<"0","1","2","3","4","5","6","7","8","9","a","b","c","d","e","f">>

HexVal(c) == IndexIn(HexChars, LowerChar(c)) - 1

\* urllib.parse.unquote: %XX with two hex digits becomes the character of
\* that byte, any other % stays as it is
RECURSIVE unquote(_)
unquote(s) ==
  LET Escape(hi, lo) ==
        IF hi >= 0 /\ lo >= 0
        THEN <<Chr(hi * 16 + lo)>> \o unquote(SubSeq(s, 4, Len(s)))
        ELSE <<Head(s)>> \o unquote(Tail(s))
  IN IF s = <<>> THEN <<>>
     ELSE IF Head(s) = "%" /\ Len(s) >= 3 THEN Escape(HexVal(s[2]), HexVal(s[3]))
     ELSE <<Head(s)>> \o unquote(Tail(s))

(***************************************************************************)
(* String literals of the source                                           *)
(***************************************************************************)
p_vmess == <<"v","m","e","s","s",":","/","/">>

p_vless == <<"v","l","e","s","s",":","/","/">>

p_trojan == <<"t","r","o","j","a","n",":","/","/">>

p_ss == <<"s","s",":","/","/">>

p_comment == <<"/","/">>

s_vmess == <<"v","m","e","s","s">>

s_vless == <<"v","l","e","s","s">>

s_trojan == <<"t","r","o","j","a","n">>

s_shadowsocks == <<"s","h","a","d","o","w","s","o","c","k","s">>

s_freedom == <<"f","r","e","e","d","o","m">>

s_blackhole == <<"b","l","a","c","k","h","o","l","e">>

s_dns == <<"d","n","s">>

s_direct == <<"d","i","r","e","c","t">>

s_block == <<"b","l","o","c","k">>

s_dns_out == <<"d","n","s","-","o","u","t">>

s_proxy_ == <<"p","r","o","x","y","-">>

s_proxy_round == <<"p","r","o","x","y","-","r","o","u","n","d">>

s_443 == <<"4","4","3">>

s_auto == <<"a","u","t","o">>

s_tcp == <<"t","c","p">>

s_none == <<"n","o","n","e">>

s_ws == <<"w","s">>

s_tls == <<"t","l","s">>

s_slash == <<"/">>

s_http == <<"h","t","t","p">>

k_add == <<"a","d","d">>

k_port == <<"p","o","r","t">>

k_id == <<"i","d">>

k_aid == <<"a","i","d">>

k_scy == <<"s","c","y">>

k_net == <<"n","e","t">>

k_tls == <<"t","l","s">>

k_path == <<"p","a","t","h">>

k_host == <<"h","o","s","t">>

k_sni == <<"s","n","i">>

k_fp == <<"f","p">>

k_flow == <<"f","l","o","w">>

k_type == <<"t","y","p","e">>

k_security == <<"s","e","c","u","r","i","t","y">>

k_alpn == <<"a","l","p","n">>

(***************************************************************************)
(* json.loads, restricted to the documents the inputs hold: an object      *)
(* whose members are strings, integers or null, or one such scalar alone.  *)
(* Escapes, floats, true/false, arrays, nested objects and inner           *)
(* whitespace are outside the input alphabet and reported as               *)
(* JSONDecodeError.  A dict is the sequence of its <<key, value>> items;   *)
(* of two items with one key the later one counts.                         *)
(***************************************************************************)
JsonFail == [ok |-> FALSE, v |-> None, next |-> 0]

JsonString(s, i) ==
  IF i <= Len(s) /\ s[i] = "\""
  THEN LET rest == SubSeq(s, i + 1, Len(s))
           k    == find(rest, <<"\"">>)
           body == SubSeq(rest, 1, k - 1)
       IN IF k = 0 \/ \E j \in 1..Len(body) : body[j] \in {"\\", "\t", "\n", "\r", "<ctl>"}
          THEN JsonFail
          ELSE [ok |-> TRUE, v |-> Str(body), next |-> i + k + 1]
  ELSE JsonFail

\* the longest run of digits of s that starts at position i
RECURSIVE DigitRun(_, _)
DigitRun(s, i) ==
  IF i <= Len(s) /\ IndexIn(DigitChars, s[i]) # 0
  THEN <<s[i]>> \o DigitRun(s, i + 1)
  ELSE <<>>

JsonNumber(s, i) ==
  LET Number(neg, run, next) ==
        IF run = <<>> \/ (Len(run) > 1 /\ Head(run) = "0")
           \/ (next <= Len(s) /\ s[next] \in {".", "e", "E"})
        THEN JsonFail
        ELSE [ok |-> TRUE, v |-> Num(IF neg THEN 0 - DigitsVal(run) ELSE DigitsVal(run)),
              next |-> next]
      Run(neg, j, run) == Number(neg, run, j + Len(run))
      Sign(neg) == IF neg THEN Run(TRUE, i + 1, DigitRun(s, i + 1))
                          ELSE Run(FALSE, i, DigitRun(s, i))
  IN Sign(i <= Len(s) /\ s[i] = "-")

JsonScalar(s, i) ==
  CASE i <= Len(s) /\ s[i] = "\"" -> JsonString(s, i)
    [] Slice(s, i, i + 3) = <<"n","u","l","l">> -> [ok |-> TRUE, v |-> None, next |-> i + 4]
    [] OTHER -> JsonNumber(s, i)

RECURSIVE JsonMembers(_, _, _)
JsonMembers(s, i, acc) ==
  LET Value(key, val) ==
        IF ~val.ok \/ val.next > Len(s) THEN JsonFail
        ELSE IF s[val.next] = ","
             THEN JsonMembers(s, val.next + 1, Append(acc, <<key.v.s, val.v>>))
        ELSE IF s[val.next] = "}"
             THEN [ok |-> TRUE, v |-> Dict(Append(acc, <<key.v.s, val.v>>)),
                   next |-> val.next + 1]
        ELSE JsonFail
      Member(key) ==
        IF ~key.ok \/ key.next > Len(s) \/ s[key.next] # ":" THEN JsonFail
        ELSE Value(key, JsonScalar(s, key.next + 1))
  IN Member(JsonString(s, i))

JsonValue(s, i) ==
  IF i <= Len(s) /\ s[i] = "{"
  THEN IF i + 1 <= Len(s) /\ s[i + 1] = "}"
       THEN [ok |-> TRUE, v |-> Dict(<<>>), next |-> i + 2]
       ELSE JsonMembers(s, i + 1, <<>>)
  ELSE JsonScalar(s, i)

loads(s) ==
  LET Whole(u, r) ==
        IF r.ok /\ r.next = Len(u) + 1
        THEN [exc |-> "", v |-> r.v]
        ELSE [exc |-> "JSONDecodeError", v |-> None]
      Document(u) == Whole(u, JsonValue(u, 1))
  IN Document(strip(s))

HasKey(d, k) == \E i \in 1..Len(d.items) : d.items[i][1] = k

\* d[k] of a dict d that has the key k
Item(d, k) ==
  LET hits == {i \in 1..Len(d.items) : d.items[i][1] = k}
  IN d.items[CHOOSE i \in hits : \A j \in hits : i >= j][2]

\* d.get(k, default)
Get(d, k, default) == IF HasKey(d, k) THEN Item(d, k) ELSE default

(***************************************************************************)
(* urllib.parse (CPython 3.11).  The characters [ and ] of IPv6 literals   *)
(* do not occur in the inputs and are not treated.                         *)
(***************************************************************************)
SchemeChars ==
  {UpperChars[i] : i \in 1..26} \cup {LowerChars[i] : i \in 1..26}
  \cup {DigitChars[i] : i \in 1..10} \cup {"+", "-", "."}

\* the position of the first of / ? # in s, Len(s) + 1 when there is none
NetlocEnd(s) ==
  LET hits == {i \in 1..Len(s) : s[i] \in {"/", "?", "#"}}
  IN IF hits = {} THEN Len(s) + 1 ELSE CHOOSE i \in hits : \A j \in hits : i <= j

DropChars(s, cs) == SelectSeq(s, LAMBDA c : c \notin cs)

RECURSIVE LStripC0(_)
LStripC0(s) ==
  IF s # <<>> /\ (IsSpace(Head(s)) \/ Head(s) = "<ctl>") THEN LStripC0(Tail(s)) ELSE s

\* urlparse(url): the scheme, netloc and query components
urlparse(url) ==
  LET Query(q) == IF Len(q) = 2 THEN q[2] ELSE <<>>
      Result(scheme, netloc, tail) ==
        [scheme |-> scheme,
         netloc |-> netloc,
         query  |-> Query(split1(split1(tail, <<"#">>)[1], <<"?">>))]
      Netloc(scheme, after, e) ==
        Result(scheme, SubSeq(after, 1, e - 1), SubSeq(after, e, Len(after)))
      After(scheme, after) == Netloc(scheme, after, NetlocEnd(after))
      Rest(scheme, rest) ==
        IF Slice(rest, 1, 2) = <<"/", "/">>
        THEN After(scheme, SubSeq(rest, 3, Len(rest)))
        ELSE Result(scheme, <<>>, rest)
      Scheme(u, k) ==
        IF k > 1
           /\ (IndexIn(UpperChars, u[1]) # 0 \/ IndexIn(LowerChars, u[1]) # 0)
           /\ \A i \in 1..(k - 1) : u[i] \in SchemeChars
        THEN Rest(lower(SubSeq(u, 1, k - 1)), SubSeq(u, k + 1, Len(u)))
        ELSE Rest(<<>>, u)
      Cleaned(u) == Scheme(u, find(u, <<":">>))
  IN Cleaned(DropChars(LStripC0(url), {"\t", "\r", "\n"}))

\* url.username
username(url) ==
  LET Userinfo(k) ==
        IF k = 0 THEN None
        ELSE Str(split1(SubSeq(url.netloc, 1, k - 1), <<":">>)[1])
  IN Userinfo(rfind(url.netloc, <<"@">>))

\* url._hostinfo: the host and port texts after the last @
hostinfo(url) ==
  LET HostPort(h) == [host |-> h[1], port |-> IF Len(h) = 2 THEN h[2] ELSE <<>>]
  IN HostPort(split1(SubSeq(url.netloc, rfind(url.netloc, <<"@">>) + 1, Len(url.netloc)),
                     <<":">>))

\* url.hostname: lower-cased up to a % zone, None when empty
hostname(url) ==
  LET Zone(h, z) ==
        IF h = <<>> THEN None
        ELSE IF z = 0 THEN Str(lower(h))
        ELSE Str(lower(SubSeq(h, 1, z - 1)) \o SubSeq(h, z, Len(h)))
      Host(h) == Zone(h, find(h, <<"%">>))
  IN Host(hostinfo(url).host)

\* url.port: None without a port text, ValueError unless it is digits of
\* a number in 0..65535
port(url) ==
  LET Port(p) ==
        IF p = <<>> THEN [exc |-> "", v |-> None]
        ELSE IF ~IsDigits(p) THEN [exc |-> "ValueError", v |-> None]
        ELSE IF DigitsVal(p) > 65535 THEN [exc |-> "ValueError", v |-> None]
        ELSE [exc |-> "", v |-> Num(DigitsVal(p))]
  IN Port(hostinfo(url).port)

\* parse_qs(qs) as the list of its <<name, value>> pairs: blank values are
\* dropped, + is a space, %XX is unquoted
RECURSIVE QsPairs(_)
QsPairs(fields) ==
  LET Text(s) == unquote(replace(s, <<"+">>, <<" ">>))
      Pair(nv) ==
        IF Len(nv) = 2 /\ nv[2] # <<>>
        THEN <<<<Text(nv[1]), Text(nv[2])>>>> \o QsPairs(Tail(fields))
        ELSE QsPairs(Tail(fields))
  IN IF fields = <<>> THEN <<>> ELSE Pair(split1(Head(fields), <<"=">>))

parse_qs(qs) == IF qs = <<>> THEN <<>> ELSE QsPairs(split(qs, <<"&">>))

\* params.get(name, [default])[0]
Param(params, name, default) ==
  LET hits == {i \in 1..Len(params) : params[i][1] = name}
  IN IF hits = {} THEN default
     ELSE params[CHOOSE i \in hits : \A j \in hits : i <= j][2]

(***************************************************************************)
(* The four decoders.  Each returns None or a descriptor; every exception  *)
(* raised inside is turned into None by the decoder's own except clause.   *)
(***************************************************************************)
decode_vmess(config) ==
  LET Loaded(doc)      == IF doc.exc # "" THEN None ELSE doc.v
      Decoded(decoded) == IF decoded.exc # "" THEN None ELSE Loaded(loads(decoded.s))
      Raw(raw)         == IF raw.exc # "" THEN None ELSE Decoded(DecodeUtf8(raw.bytes))
      Encoded(encoded) == Raw(b64decode(encoded))
  IN Encoded(replace(config, p_vmess, <<>>))

parse_vless(config) ==
  LET Descriptor(url, address, portnum, params) ==
        IF portnum.exc # "" THEN None
        ELSE [uuid     |-> username(url),
              address  |-> Str(address),
              port     |-> Num(portnum.n),
              flow     |-> Str(Param(params, k_flow, <<>>)),
              sni      |-> Str(Param(params, k_sni, address)),
              type     |-> Str(Param(params, k_type, s_tcp)),
              path     |-> Str(Param(params, k_path, <<>>)),
              host     |-> Str(Param(params, k_host, address)),
              security |-> Str(Param(params, k_security, s_none)),
              alpn     |-> Str(Param(params, k_alpn, <<>>)),
              fp       |-> Str(Param(params, k_fp, <<>>))]
      AddressPort(url, ap) ==
        IF Len(ap) # 2 THEN None
        ELSE Descriptor(url, ap[1], int(ap[2]), parse_qs(url.query))
      Netloc(url, netloc) ==
        AddressPort(url, IF Contains(netloc, <<":">>) THEN split(netloc, <<":">>)
                                                       ELSE <<netloc, s_443>>)
      Parts(url, parts) == Netloc(url, parts[Len(parts)])
      Url(url) ==
        IF lower(url.scheme) # s_vless \/ ~Truthy(hostname(url)) THEN None
        ELSE Parts(url, split(url.netloc, <<"@">>))
  IN Url(urlparse(config))

parse_trojan(config) ==
  LET Descriptor(url, host, p, params) ==
        IF p.exc # "" THEN None
        ELSE [password |-> username(url),
              address  |-> host,
              port     |-> IF Truthy(p.v) THEN p.v ELSE Num(443),
              sni      |-> Str(Param(params, k_sni, host.s)),
              alpn     |-> Str(Param(params, k_alpn, <<>>)),
              type     |-> Str(Param(params, k_type, s_tcp)),
              path     |-> Str(Param(params, k_path, <<>>)),
              host     |-> Str(Param(params, k_host, host.s))]
      Host(url, host) ==
        IF lower(url.scheme) # s_trojan \/ ~Truthy(host) THEN None
        ELSE Descriptor(url, host, port(url), parse_qs(url.query))
      Url(url) == Host(url, hostname(url))
  IN Url(urlparse(config))

\* the regular expression ^[A-Za-z0-9+/\-_]*$ ; $ also matches before one
\* final newline
is_base64(s0) ==
  LET s    == rstripPad(s0)
      body == IF s # <<>> /\ s[Len(s)] = "\n" THEN SubSeq(s, 1, Len(s) - 1) ELSE s
  IN \A i \in 1..Len(body) :
        IndexIn(B64Alphabet, body[i]) # 0 \/ body[i] \in {"-", "_"}

parse_shadowsocks(config) ==
  LET Descriptor(host, portnum, mp) ==
        IF Len(mp) # 2 THEN None
        ELSE [method   |-> Str(mp[1]),
              password |-> Str(mp[2]),
              address  |-> Str(host),
              port     |-> Num(portnum.n)]
      MethodPass(host, portnum, method_pass) ==
        IF method_pass.exc # "" THEN None
        ELSE Descriptor(host, portnum, split1(method_pass.s, <<":">>))
      Raw(host, portnum, raw) ==
        IF raw.exc # "" THEN None
        ELSE MethodPass(host, portnum, DecodeUtf8(raw.bytes))
      Padded(host, portnum, method_pass_b64) ==
        Raw(host, portnum,
            b64decode(method_pass_b64
                      \o [i \in 1..((4 - (Len(method_pass_b64) % 4)) % 4) |-> "="]))
      Credential(host, portnum, credential_part) ==
        IF is_base64(credential_part)
        THEN Padded(host, portnum,
                    replace(replace(credential_part, <<"-">>, <<"+">>), <<"_">>, <<"/">>))
        ELSE Descriptor(host, portnum, split1(credential_part, <<":">>))
      Port(parts, host, portnum) ==
        IF portnum.exc # "" THEN None
        ELSE Credential(host, portnum, unquote(parts[1]))
      HostPort(parts, hp) == Port(parts, hp[1], int(hp[2]))
      Fragment(parts, fragment) ==
        IF ~Contains(fragment, <<":">>) THEN None
        ELSE HostPort(parts, rsplit1(fragment, <<":">>))
      Parts(parts) ==
        IF Len(parts) # 2 THEN None
        ELSE Fragment(parts, split(parts[2], <<"#">>)[1])
  IN Parts(split(replace(config, p_ss, <<>>), <<"@">>))

(***************************************************************************)
(* The four encoders.  An outbound is a record whose streamSettings has    *)
(* the keys wsSettings and tlsSettings only when they were attached.       *)
(***************************************************************************)
NoKeys == [k \in {} |-> None]

\* int(v) of a value: TypeError on None, ValueError on a str that is no number
PyInt(v) ==
  CASE v.t = "int" -> [exc |-> "", n |-> v.n]
    [] v.t = "str" -> int(v.s)
    [] OTHER       -> [exc |-> "TypeError", n |-> 0]

\* convert_vmess reads its dict with data.get and data['add'], in the order
\* of the source; the first exception raised is the result
convert_vmess(data) ==
  LET ws      == [wsSettings |->
                    [path    |-> Get(data, k_path, Str(s_slash)),
                     headers |-> [Host |-> Get(data, k_host, Item(data, k_add))]]]
      fp      == IF Truthy(Get(data, k_fp, None))
                 THEN [fingerprint |-> Get(data, k_fp, None)]
                 ELSE NoKeys
      tls     == [tlsSettings |->
                    fp @@ [serverName    |-> Get(data, k_sni, Item(data, k_add)),
                           allowInsecure |-> FALSE]]
      Outbound(portnum, aid, isWs, isTls) ==
        IF portnum.exc # "" THEN [exc |-> portnum.exc, outbound |-> None]
        ELSE IF aid.exc # "" THEN [exc |-> aid.exc, outbound |-> None]
        ELSE IF (isWs \/ isTls) /\ ~HasKey(data, k_add)
        THEN [exc |-> "KeyError", outbound |-> None]
        ELSE [exc |-> "",
              outbound |->
                [protocol |-> Str(s_vmess),
                 settings |->
                   [vnext |-> <<[address |-> Get(data, k_add, None),
                                 port    |-> Num(portnum.n),
                                 users   |-> <<[id       |-> Get(data, k_id, None),
                                                alterId  |-> Num(aid.n),
                                                security |-> Get(data, k_scy, Str(s_auto)),
                                                level    |-> Num(8)]>>]>>],
                 streamSettings |->
                   (IF isWs THEN ws ELSE NoKeys) @@ (IF isTls THEN tls ELSE NoKeys)
                   @@ [network  |-> Get(data, k_net, Str(s_tcp)),
                       security |-> Get(data, k_tls, Str(s_none))]]]
  IN IF data.t # "dict" THEN [exc |-> "AttributeError", outbound |-> None]
     ELSE Outbound(PyInt(Get(data, k_port, None)), PyInt(Get(data, k_aid, Num(0))),
                   Get(data, k_net, None) = Str(s_ws), Get(data, k_tls, None) = Str(s_tls))

\* data['alpn'].split(',')
AlpnList(alpn) == [i \in 1..Len(split(alpn.s, <<",">>)) |-> Str(split(alpn.s, <<",">>)[i])]

convert_vless(data) ==
  LET ws   == IF data.type = Str(s_ws)
              THEN [wsSettings |-> [path |-> data.path, headers |-> [Host |-> data.host]]]
              ELSE NoKeys
      alpn == IF Truthy(data.alpn) THEN [alpn |-> AlpnList(data.alpn)] ELSE NoKeys
      fp   == IF Truthy(data.fp) THEN [fingerprint |-> data.fp] ELSE NoKeys
      tls  == IF data.security = Str(s_tls)
              THEN [tlsSettings |->
                      alpn @@ fp @@ [serverName |-> data.sni, allowInsecure |-> FALSE]]
              ELSE NoKeys
  IN [protocol |-> Str(s_vless),
      settings |->
        [vnext |-> <<[address |-> data.address,
                      port    |-> data.port,
                      users   |-> <<[id         |-> data.uuid,
                                     flow       |-> data.flow,
                                     encryption |-> Str(s_none),
                                     level      |-> Num(8)]>>]>>],
      streamSettings |-> ws @@ tls @@ [network |-> data.type, security |-> data.security]]

\* variant: TLS attached as convert_vless attaches it, on security = tls
convert_trojan_optional_tls(data) ==
  LET ws   == IF data.type = Str(s_ws)
              THEN [wsSettings |-> [path |-> data.path, headers |-> [Host |-> data.host]]]
              ELSE NoKeys
      sec  == IF "security" \in DOMAIN data THEN data.security ELSE Str(s_none)
      alpn == IF Truthy(data.alpn) THEN [alpn |-> AlpnList(data.alpn)] ELSE NoKeys
      tls  == IF sec = Str(s_tls)
              THEN [tlsSettings |-> alpn @@ [serverName |-> data.sni, allowInsecure |-> FALSE]]
              ELSE NoKeys
  IN [protocol |-> Str(s_trojan),
      settings |->
        [servers |-> <<[address  |-> data.address,
                        port     |-> data.port,
                        password |-> data.password,
                        level    |-> Num(8)]>>],
      streamSettings |-> ws @@ tls @@ [network |-> data.type, security |-> sec]]

convert_trojan(data) ==
  LET ws   == IF data.type = Str(s_ws)
              THEN [wsSettings |-> [path |-> data.path, headers |-> [Host |-> data.host]]]
              ELSE NoKeys
      alpn == IF Truthy(data.alpn) THEN [alpn |-> AlpnList(data.alpn)] ELSE NoKeys
      tls  == [tlsSettings |-> alpn @@ [serverName |-> data.sni, allowInsecure |-> FALSE]]
  IN [protocol |-> Str(s_trojan),
      settings |->
        [servers |-> <<[address  |-> data.address,
                        port     |-> data.port,
                        password |-> data.password,
                        level    |-> Num(8)]>>],
      streamSettings |-> ws @@ tls @@ [network |-> data.type, security |-> Str(s_tls)]]

convert_shadowsocks(data) ==
  [protocol |-> Str(s_shadowsocks),
   settings |->
     [servers |-> <<[address  |-> data.address,
                     port     |-> data.port,
                     method   |-> data.method,
                     password |-> data.password,
                     level    |-> Num(8)]>>],
   streamSettings |-> [network |-> Str(s_tcp)]]

(***************************************************************************)
(* get_xray_template: the parts of the fixed document that name outbound   *)
(* tags.  The remaining keys (log, dns, inbounds, policy) are constants    *)
(* that no outbound refers to.                                             *)
(***************************************************************************)
get_xray_template ==
  [observatory |-> [subjectSelector |-> <<Str(s_proxy_)>>],
   outbounds   |-> <<>>,
   routing     |->
     [balancers |-> <<[selector |-> <<Str(s_proxy_)>>, tag |-> Str(s_proxy_round)]>>,
      rules     |-> <<[outboundTag |-> Str(s_dns_out)],
                      [outboundTag |-> Str(s_direct)],
                      [outboundTag |-> Str(s_direct)],
                      [outboundTag |-> Str(s_direct)],
                      [outboundTag |-> Str(s_direct)],
                      [outboundTag |-> Str(s_direct)],
                      [balancerTag |-> Str(s_proxy_round)]>>]]

\* variant: the dns outbound under another tag
UtilityOutboundsRenamed ==
  <<[protocol |-> Str(s_freedom), settings |-> NoKeys, tag |-> Str(s_direct)],
    [protocol |-> Str(s_blackhole),
     settings |-> [response |-> [type |-> Str(s_http)]],
     tag      |-> Str(s_block)],
    [protocol |-> Str(s_dns), tag |-> Str(s_dns)]>>

\* the three outbounds that process_configs appends after the loop
UtilityOutbounds ==
  <<[protocol |-> Str(s_freedom), settings |-> NoKeys, tag |-> Str(s_direct)],
    [protocol |-> Str(s_blackhole),
     settings |-> [response |-> [type |-> Str(s_http)]],
     tag      |-> Str(s_block)],
    [protocol |-> Str(s_dns), tag |-> Str(s_dns_out)]>>

\* variant: the utility outbounds put in front
WithUtilitiesFirst(temp) == UtilityOutbounds \o temp

\* temp_outbounds.extend([...])
WithUtilities(temp) == temp \o UtilityOutbounds

\* str(n) of a natural number
RECURSIVE NatStr(_)
NatStr(n) ==
  IF n < 10 THEN <<DigitChars[n + 1]>>
  ELSE NatStr(n \div 10) \o <<DigitChars[(n % 10) + 1]>>

\* variant: the tag numbered by the line of the file
NextTagByLine(temp, lineno) == Str(s_proxy_ \o NatStr(lineno))

\* f"proxy-{len(temp_outbounds) + 1}"; lineno is the 1-based number of the
\* line in the file, which the code does not use
NextTag(temp, lineno) == Str(s_proxy_ \o NatStr(Len(temp) + 1))

\* if outbound: the tag is set and the outbound appended; r is the
\* HandleLine result of the line
Collect(temp, r, lineno) ==
  IF r.outbound # None
  THEN Append(temp, [tag |-> NextTag(temp, lineno)] @@ r.outbound)
  ELSE temp

\* variant: except ValueError
CaughtValueError(exc) == exc = "ValueError"

\* except Exception: every exception an encoder raises is an Exception
Caught(exc) == exc \in {"AttributeError", "KeyError", "TypeError", "ValueError"}

\* variant: no gate
NeverEmpty(temp) == FALSE

\* if not temp_outbounds
NoOutbounds(temp) == temp = <<>>

\* variant: a line of no known scheme is reported
UnrecognizedWarns(line) ==
  [kind |-> "other", data |-> None, exc |-> "ValueError", outbound |-> None]

\* a line that matches none of the four prefixes: no branch runs
Unrecognized(line) == [kind |-> "other", data |-> None, exc |-> "", outbound |-> None]

(***************************************************************************)
(* The body of the loop up to the except clause, for one line of the file: *)
(* kind is the branch taken, data the decoder's result, exc the exception  *)
(* raised inside the try ("" for none), outbound the untagged outbound or  *)
(* None.                                                                   *)
(***************************************************************************)
HandleLine(raw) ==
  LET Dropped(k, d) == [kind |-> k, data |-> d, exc |-> "", outbound |-> None]
      Made(k, d, o) == [kind |-> k, data |-> d, exc |-> "", outbound |-> o]
      Tried(k, d, r) == [kind |-> k, data |-> d, exc |-> r.exc, outbound |-> r.outbound]
      Vmess(data) ==
        IF ~Truthy(data) THEN Dropped("vmess", data)
        ELSE Tried("vmess", data, convert_vmess(data))
      Vless(data) ==
        IF data = None THEN Dropped("vless", data)
        ELSE Made("vless", data, convert_vless(data))
      Trojan(data) ==
        IF data = None THEN Dropped("trojan", data)
        ELSE Made("trojan", data, convert_trojan(data))
      Shadowsocks(data) ==
        IF data = None THEN Dropped("ss", data)
        ELSE Made("ss", data, convert_shadowsocks(data))
      Dispatch(line, line_lower) ==
        IF line = <<>> THEN Dropped("blank", None)
        ELSE IF startswith(line, p_comment) THEN Dropped("comment", None)
        ELSE IF startswith(line_lower, p_vmess) THEN Vmess(decode_vmess(line))
        ELSE IF startswith(line_lower, p_vless) THEN Vless(parse_vless(line))
        ELSE IF startswith(line_lower, p_trojan) THEN Trojan(parse_trojan(line))
        ELSE IF startswith(line_lower, p_ss) THEN Shadowsocks(parse_shadowsocks(line))
        ELSE Unrecognized(line)
      Stripped(line) == Dispatch(line, lower(line))
  IN Stripped(strip(raw))

(***************************************************************************)
(* Inputs: the lines a file may hold, without their newline                *)
(***************************************************************************)
\* (spaces only)
line_blank ==
  <<" "," ">>

\* //ss://m:p@h:80
line_comment ==
  <<" ","/","/","s","s",":","/","/","m",":","p","@","h",":","8","0">>

\* http://example.com
line_http ==
  <<"h","t","t","p",":","/","/","e","x","a","m","p","l","e",".","c","o",
    "m">>

\* vmess://eyJhZGQiOiJoIiwicG9ydCI6MSwiaWQiOiJ1In0=
line_vmess ==
  <<"v","m","e","s","s",":","/","/","e","y","J","h","Z","G","Q","i","O","i",
    "J","o","I","i","w","i","c","G","9","y","d","C","I","6","M","S","w","i",
    "a","W","Q","i","O","i","J","1","I","n","0","=">>

\* vmess://eyJhZGQiOiJoIiwiaWQiOiJ1In0=
line_vmess_no_port ==
  <<"v","m","e","s","s",":","/","/","e","y","J","h","Z","G","Q","i","O","i",
    "J","o","I","i","w","i","a","W","Q","i","O","i","J","1","I","n","0",
    "=">>

\* VMESS://eyJhZGQiOiJoIiwicG9ydCI6MSwiaWQiOiJ1In0=
line_vmess_upper ==
  <<"V","M","E","S","S",":","/","/","e","y","J","h","Z","G","Q","i","O","i",
    "J","o","I","i","w","i","c","G","9","y","d","C","I","6","M","S","w","i",
    "a","W","Q","i","O","i","J","1","I","n","0","=">>

\* vmess://e30=
line_vmess_empty ==
  <<"v","m","e","s","s",":","/","/","e","3","0","=">>

\* vless://u@h:443?security=tls&type=ws
line_vless ==
  <<"v","l","e","s","s",":","/","/","u","@","h",":","4","4","3","?","s","e",
    "c","u","r","i","t","y","=","t","l","s","&","t","y","p","e","=","w",
    "s">>

\* VLESS://u@h:443?security=tls&type=ws
line_vless_upper ==
  <<"V","L","E","S","S",":","/","/","u","@","h",":","4","4","3","?","s","e",
    "c","u","r","i","t","y","=","t","l","s","&","t","y","p","e","=","w",
    "s">>

\* vless://u@h:0
line_vless_port0 ==
  <<"v","l","e","s","s",":","/","/","u","@","h",":","0">>

\* vless://u@h:x
line_vless_bad_port ==
  <<"v","l","e","s","s",":","/","/","u","@","h",":","x">>

\* trojan://p@h
line_trojan ==
  <<"t","r","o","j","a","n",":","/","/","p","@","h">>

\* Trojan://p@h
line_trojan_upper ==
  <<"T","r","o","j","a","n",":","/","/","p","@","h">>

\* trojan://p@h:1?security=none&sni=s&type=ws
line_trojan_params ==
  <<"t","r","o","j","a","n",":","/","/","p","@","h",":","1","?","s","e","c",
    "u","r","i","t","y","=","n","o","n","e","&","s","n","i","=","s","&","t",
    "y","p","e","=","w","s">>

\* trojan://p@h:99999
line_trojan_big_port ==
  <<"t","r","o","j","a","n",":","/","/","p","@","h",":","9","9","9","9",
    "9">>

\* ss://m:p@h:80
line_ss ==
  <<"s","s",":","/","/","m",":","p","@","h",":","8","0">>

\* SS://m:p@h:80
line_ss_upper ==
  <<"S","S",":","/","/","m",":","p","@","h",":","8","0">>

\* ss://bTpw@h:80#n
line_ss_b64 ==
  <<"s","s",":","/","/","b","T","p","w","@","h",":","8","0","#","n">>

\* ss://m:p@h:99999
line_ss_big_port ==
  <<"s","s",":","/","/","m",":","p","@","h",":","9","9","9","9","9">>

InputLines ==
  {line_blank, line_comment, line_http, line_vmess,
   line_vmess_no_port, line_vmess_upper, line_vmess_empty, line_vless,
   line_vless_upper, line_vless_port0, line_vless_bad_port, line_trojan,
   line_trojan_upper, line_trojan_params, line_trojan_big_port, line_ss,
   line_ss_upper, line_ss_b64, line_ss_big_port}

\* the longest file, in lines
MaxLines == 3

InputFiles == UNION {[1..n -> InputLines] : n \in 0..MaxLines}

\* f.readlines(): every line of the file with its newline
readlines(file) == [j \in 1..Len(file) |-> file[j] \o <<"\n">>]

\* HandleLine of every line readlines can return, computed once
LineResult == [l \in {readlines(<<f>>)[1] : f \in InputLines} |-> HandleLine(l)]

(***************************************************************************)
(* process_configs as a state machine                                      *)
(***************************************************************************)
VARIABLES
  input,           \* the input file: status ok / missing / unreadable, lines
  pc,              \* read, loop, write, done, raised
  lines,           \* the list readlines returned
  pos,             \* 1-based number of the next line of the loop
  temp_outbounds,
  final_config,
  log,             \* the messages given to logger, in order
  output,          \* the output path: dir (created or not), file (absent, written, truncated), doc
  writes,          \* how many times the write step was entered
  handled          \* for every line the loop has finished, its HandleLine result

vars == <<input, pc, lines, pos, temp_outbounds, final_config, log, output, writes, handled>>

Init ==
  /\ input \in {[status |-> "missing", lines |-> <<>>],
                [status |-> "unreadable", lines |-> <<>>]}
               \cup {[status |-> "ok", lines |-> f] : f \in InputFiles}
  /\ pc = "read"
  /\ lines = <<>>
  /\ pos = 1
  /\ temp_outbounds = <<>>
  /\ final_config = get_xray_template
  /\ log = <<>>
  /\ output = [dir |-> FALSE, file |-> "absent", doc |-> None]
  /\ writes = 0
  /\ handled = <<>>

\* open + readlines succeed; the template is fetched and the list emptied
ReadLines ==
  /\ pc = "read"
  /\ input.status = "ok"
  /\ lines' = readlines(input.lines)
  /\ final_config' = get_xray_template
  /\ temp_outbounds' = <<>>
  /\ pc' = "loop"
  /\ UNCHANGED <<input, pos, log, output, writes, handled>>

\* except FileNotFoundError
ReadNotFound ==
  /\ pc = "read"
  /\ input.status = "missing"
  /\ log' = Append(log, [level |-> "error", what |-> "not found"])
  /\ pc' = "done"
  /\ UNCHANGED <<input, lines, pos, temp_outbounds, final_config, output, writes, handled>>

\* except Exception on reading
ReadError ==
  /\ pc = "read"
  /\ input.status = "unreadable"
  /\ log' = Append(log, [level |-> "error", what |-> "read error"])
  /\ pc' = "done"
  /\ UNCHANGED <<input, lines, pos, temp_outbounds, final_config, output, writes, handled>>

\* one iteration of the loop over lines
ProcessLine ==
  /\ pc = "loop"
  /\ pos <= Len(lines)
  /\ LET Iteration(r) ==
           IF r.exc # "" /\ ~Caught(r.exc)
           THEN /\ pc' = "raised"
                /\ UNCHANGED <<pos, temp_outbounds, log, handled>>
           ELSE /\ log' = IF r.exc # ""
                          THEN Append(log, [level |-> "warning", what |-> "parse",
                                            line |-> Slice(strip(lines[pos]), 1, 30),
                                            exc |-> r.exc])
                          ELSE log
                /\ temp_outbounds' = Collect(temp_outbounds, r, pos)
                /\ handled' = Append(handled, r)
                /\ pos' = pos + 1
                /\ pc' = pc
     IN Iteration(LineResult[lines[pos]])
  /\ UNCHANGED <<input, lines, final_config, output, writes>>

\* after the loop: the gate on an empty list, else the utility outbounds
\* are appended and the list is put into the document
Finalize ==
  /\ pc = "loop"
  /\ pos > Len(lines)
  /\ IF NoOutbounds(temp_outbounds)
     THEN /\ log' = Append(log, [level |-> "error", what |-> "no valid configs"])
          /\ pc' = "done"
          /\ UNCHANGED <<temp_outbounds, final_config>>
     ELSE /\ temp_outbounds' = WithUtilities(temp_outbounds)
          /\ final_config' = [final_config EXCEPT !.outbounds = WithUtilities(temp_outbounds)]
          /\ pc' = "write"
          /\ UNCHANGED log
  /\ UNCHANGED <<input, lines, pos, output, writes, handled>>

\* makedirs, open and json.dump succeed
WriteOutput ==
  /\ pc = "write"
  /\ writes' = writes + 1
  /\ output' = [dir |-> TRUE, file |-> "written", doc |-> final_config]
  /\ log' = Append(log, [level |-> "info", what |-> "converted",
                         count |-> Len(temp_outbounds) - 3])
  /\ pc' = "done"
  /\ UNCHANGED <<input, lines, pos, temp_outbounds, final_config, handled>>

\* makedirs, open or json.dump raises: the directory may exist already and
\* the file may hold a part of the document
WriteFails ==
  /\ pc = "write"
  /\ writes' = writes + 1
  /\ \E stage \in {"makedirs", "open", "dump"} :
        output' = [dir  |-> stage # "makedirs",
                   file |-> IF stage = "dump" THEN "truncated" ELSE "absent",
                   doc  |-> None]
  /\ log' = Append(log, [level |-> "error", what |-> "write failed"])
  /\ pc' = "done"
  /\ UNCHANGED <<input, lines, pos, temp_outbounds, final_config, handled>>

Next ==
  \/ ReadLines
  \/ ReadNotFound
  \/ ReadError
  \/ ProcessLine
  \/ Finalize
  \/ WriteOutput
  \/ WriteFails

Spec == Init /\ [][Next]_vars
(***************************************************************************)
(* Properties                                                              *)
(***************************************************************************)
\* the lines handled so far that produced an outbound, in order
Made == SelectSeq(handled, LAMBDA r : r.outbound # None)

\* the loop has run over every line of a file that was read
LoopOver == input.status = "ok" /\ pc \in {"loop", "write", "done"} /\ pos > Len(lines)

\* the document given to the output step, once there is one
HandedOver == pc = "write" \/ writes > 0

\* C1: the tags of the user-derived outbounds, in list order, are proxy-1,
\* proxy-2, ..., proxy-N, N being the number of lines that converted: each
\* tag is the prefix proxy- followed by the decimal numeral of its position,
\* whatever failed or skipped lines lie between the converted ones.
C1_TagsDense ==
  /\ Len(temp_outbounds) \in {Len(Made), Len(Made) + 3}
  /\ \A k \in 1..Len(Made) :
        LET tag == temp_outbounds[k].tag.s
            num == SubSeq(tag, Len(s_proxy_) + 1, Len(tag))
        IN /\ startswith(tag, s_proxy_)
           /\ IsDigits(num)
           /\ Head(num) # "0"
           /\ DigitsVal(num) = k

\* a finished run in which a failed line lies between two converted ones
C1_Witness ==
  /\ LoopOver
  /\ pc = "done"
  /\ \E a, b, c \in 1..Len(handled) :
        /\ a < b /\ b < c
        /\ handled[a].outbound # None
        /\ handled[b].outbound = None /\ handled[b].kind \in {"vmess", "vless", "trojan", "ss"}
        /\ handled[c].outbound # None
\* C2: a document given to the output step lists the user-derived outbounds
\* first, in the order of their input lines with failed and skipped lines
\* left out, then exactly direct (freedom), block (blackhole) and dns-out
\* (dns); no utility outbound precedes a user-derived one and nothing
\* follows dns-out.
C2_OutboundOrder ==
  HandedOver =>
    LET obs == final_config.outbounds
        n   == Len(obs) - 3
    IN /\ n = Len(Made)
       /\ \A k \in 1..n :
             /\ obs[k] = [tag |-> obs[k].tag] @@ Made[k].outbound
             /\ obs[k].protocol \notin {Str(s_freedom), Str(s_blackhole), Str(s_dns)}
       /\ obs[n + 1].protocol = Str(s_freedom)   /\ obs[n + 1].tag = Str(s_direct)
       /\ obs[n + 2].protocol = Str(s_blackhole) /\ obs[n + 2].tag = Str(s_block)
       /\ obs[n + 3].protocol = Str(s_dns)       /\ obs[n + 3].tag = Str(s_dns_out)
       /\ (output.file = "written" => output.doc = final_config)

\* a written document with two different user outbounds around a line that
\* gave none
C2_Witness ==
  /\ output.file = "written"
  /\ Len(handled) = 3
  /\ handled[1].outbound # None
  /\ handled[2].outbound = None
  /\ handled[3].outbound # None
  /\ handled[1].outbound # handled[3].outbound

\* C3: a failure on one line never aborts the batch: no exception leaves
\* process_configs, every line of the file is handled, and every line that
\* converts on its own has its outbound in the list even when an earlier
\* line failed in its decoder or raised in its encoder.
C3_NoAbort ==
  /\ pc # "raised"
  /\ (input.status = "ok" /\ pc \in {"write", "done"}) =>
        /\ Len(handled) = Len(input.lines)
        /\ \A j \in 1..Len(input.lines) :
              LET r == LineResult[input.lines[j] \o <<"\n">>]
              IN r.outbound # None =>
                   \E k \in 1..Len(temp_outbounds) :
                      temp_outbounds[k] = [tag |-> temp_outbounds[k].tag] @@ r.outbound
        /\ Cardinality({j \in 1..Len(input.lines) :
                          LineResult[input.lines[j] \o <<"\n">>].outbound # None})
             = Len(temp_outbounds) - (IF HandedOver THEN 3 ELSE 0)

\* a finished run where an encoder raised on one line, a decoder failed on
\* another, and a later line converted
C3_Witness ==
  /\ pc = "done"
  /\ \E a, b, c \in 1..Len(handled) :
        /\ a < c /\ b < c
        /\ handled[a].exc # ""
        /\ handled[b].kind \in {"vmess", "vless", "trojan", "ss"}
        /\ handled[b].data = None
        /\ handled[c].outbound # None

\* C4: the write step is entered at most once and only after every line was
\* handled and at least one converted; a run that read its input and
\* converted nothing ends with an error reported, no directory, no file and
\* no utility outbound appended; a run that converted something enters the
\* write step exactly once.
C4_WriteGate ==
  /\ writes <= 1
  /\ (pc = "write" \/ writes = 1) => (LoopOver /\ Len(Made) >= 1)
  /\ (output.dir \/ output.file # "absent") => writes = 1
  /\ (pc = "done" /\ input.status = "ok" /\ Len(Made) = 0) =>
        /\ writes = 0
        /\ output = [dir |-> FALSE, file |-> "absent", doc |-> None]
        /\ temp_outbounds = <<>>
        /\ final_config.outbounds = <<>>
        /\ log[Len(log)] = [level |-> "error", what |-> "no valid configs"]
  /\ (pc = "done" /\ input.status = "ok" /\ Len(Made) >= 1) => writes = 1

\* a finished run over a file whose lines all failed or were skipped
C4_Witness ==
  /\ pc = "done"
  /\ input.status = "ok"
  /\ Len(handled) >= 2
  /\ Len(Made) = 0
  /\ \E j \in 1..Len(handled) : handled[j].exc # ""
\* the lines the orchestrator is to skip in silence, decided on the text
\* alone: blank, starting with //, or starting with none of the prefixes
SkippedLines ==
  {l \in InputLines :
     \/ strip(l) = <<>>
     \/ startswith(strip(l), p_comment)
     \/ \A p \in {p_vmess, p_vless, p_trojan, p_ss} : ~startswith(lower(strip(l)), p)}

\* the list the loop builds from the file ls, whose first line has number n
RECURSIVE LoopResult(_, _, _)
LoopResult(ls, n, temp) ==
  IF ls = <<>> THEN temp
  ELSE LoopResult(Tail(ls), n + 1, Collect(temp, LineResult[Head(ls)], n))

\* C8: a blank line, a line starting with // and a line with none of the
\* four prefixes give no outbound and no warning, and the outbounds of a
\* file, tags included, are those of the same file without such lines.
C8_SkippedSilently ==
  LoopOver =>
    LET kept == SelectSeq(input.lines, LAMBDA l : l \notin SkippedLines)
    IN /\ \A j \in 1..Len(input.lines) :
             input.lines[j] \in SkippedLines =>
                handled[j].outbound = None /\ handled[j].exc = ""
       /\ Len(SelectSeq(log, LAMBDA m : m.level = "warning"))
            = Cardinality({j \in 1..Len(input.lines) :
                             input.lines[j] \notin SkippedLines /\ handled[j].exc # ""})
       /\ SubSeq(temp_outbounds, 1, Len(Made)) = LoopResult(readlines(kept), 1, <<>>)

\* a run over a file in which a skipped line lies between two lines that
\* converted
C8_Witness ==
  /\ LoopOver
  /\ \E a, b, c \in 1..Len(handled) :
        /\ a < b /\ b < c
        /\ input.lines[b] \in SkippedLines
        /\ handled[a].outbound # None
        /\ handled[c].outbound # None

\* C9: in a document given to the output step every outboundTag of a
\* routing rule is the tag of exactly one outbound, and every selector
\* prefix of the balancer and of the observatory matches at least one
\* outbound and only user-derived ones.
C9_TagsResolve ==
  HandedOver =>
    LET obs   == final_config.outbounds
        rules == final_config.routing.rules
        sels  == {final_config.observatory.subjectSelector[k] :
                     k \in 1..Len(final_config.observatory.subjectSelector)}
                 \cup UNION {{final_config.routing.balancers[b].selector[k] :
                                 k \in 1..Len(final_config.routing.balancers[b].selector)} :
                             b \in 1..Len(final_config.routing.balancers)}
    IN /\ \A r \in 1..Len(rules) :
             "outboundTag" \in DOMAIN rules[r] =>
                Cardinality({k \in 1..Len(obs) : obs[k].tag = rules[r].outboundTag}) = 1
       /\ \A sel \in sels :
             /\ \E k \in 1..Len(obs) : startswith(obs[k].tag.s, sel.s)
             /\ \A k \in 1..Len(obs) :
                   startswith(obs[k].tag.s, sel.s) =>
                      /\ k <= Len(obs) - 3
                      /\ obs[k].tag \notin {Str(s_direct), Str(s_block), Str(s_dns_out)}
       /\ (output.file = "written" => output.doc = final_config)

\* a written document with at least two user outbounds
C9_Witness ==
  /\ output.file = "written"
  /\ Len(output.doc.outbounds) >= 5

\* the sni parameter of a trojan link: the first non-blank sni value of its
\* query, <<>> when there is none
SniOf == [l \in InputLines |-> Param(parse_qs(urlparse(strip(l)).query), k_sni, <<>>)]

\* C10: every trojan outbound has streamSettings.security tls and a
\* tlsSettings block whose serverName is the sni parameter of its link, or
\* its address when the link has no sni, whatever the query of the link.
C10_TrojanTls ==
  \A k \in 1..Len(Made) :
     LET ob  == temp_outbounds[k]
         src == CHOOSE j \in 1..Len(handled) :
                   /\ handled[j].outbound # None
                   /\ Cardinality({m \in 1..j : handled[m].outbound # None}) = k
     IN ob.protocol = Str(s_trojan) =>
          /\ ob.streamSettings.security = Str(s_tls)
          /\ "tlsSettings" \in DOMAIN ob.streamSettings
          /\ "serverName" \in DOMAIN ob.streamSettings.tlsSettings
          /\ ob.streamSettings.tlsSettings.serverName =
               (IF SniOf[input.lines[src]] # <<>>
                THEN Str(SniOf[input.lines[src]])
                ELSE ob.settings.servers[1].address)
          /\ Truthy(ob.streamSettings.tlsSettings.serverName)

\* a run that converted a trojan link without a query and one whose query
\* asks for security=none
C10_Witness ==
  \E a, b \in 1..Len(handled) :
     /\ input.lines[a] = line_trojan
     /\ input.lines[b] = line_trojan_params
     /\ handled[a].outbound # None
     /\ handled[b].outbound # None
\* C5: whenever a decoder returns a descriptor that is passed to its encoder
\* (the result is not the failure signal and not empty), the descriptor has
\* its mandatory fields (address, port as a number, credential) and the
\* encoder makes an outbound without raising.
C5_DescriptorsComplete ==
  \A j \in 1..Len(handled) :
     LET r == handled[j]
     IN (IF r.kind = "vmess" THEN Truthy(r.data) ELSE r.data # None) =>
          /\ r.exc = ""
          /\ r.outbound # None
          /\ CASE r.kind = "vmess" ->
                    /\ r.data.t = "dict"
                    /\ HasKey(r.data, k_add) /\ HasKey(r.data, k_id) /\ HasKey(r.data, k_port)
                    /\ PyInt(Item(r.data, k_port)).exc = ""
               [] r.kind = "vless" ->
                    Truthy(r.data.uuid) /\ Truthy(r.data.address) /\ r.data.port.t = "int"
               [] r.kind = "trojan" ->
                    Truthy(r.data.password) /\ Truthy(r.data.address) /\ r.data.port.t = "int"
               [] r.kind = "ss" ->
                    /\ Truthy(r.data.method) /\ Truthy(r.data.password)
                    /\ Truthy(r.data.address) /\ r.data.port.t = "int"

\* the pairs <<a, b>> of input lines where a starts with a scheme prefix in
\* lower case and b is a with the letters of that prefix in another case
CasePairs ==
  {ab \in InputLines \X InputLines :
     /\ ab[1] # ab[2]
     /\ \E p \in {p_vmess, p_vless, p_trojan, p_ss} :
           /\ startswith(strip(ab[1]), p)
           /\ startswith(lower(strip(ab[2])), p)
           /\ SubSeq(strip(ab[1]), Len(p) + 1, Len(strip(ab[1])))
                = SubSeq(strip(ab[2]), Len(p) + 1, Len(strip(ab[2])))}

\* C6: a link that converts with its prefix in lower case is, with the
\* prefix in any other case, sent to the same decoder, decoded to the same
\* descriptor and converted to the same outbound.
C6_CaseInsensitive ==
  \A a, b \in 1..Len(handled) :
     (<<input.lines[a], input.lines[b]>> \in CasePairs /\ handled[a].outbound # None) =>
        /\ handled[b].kind = handled[a].kind
        /\ handled[b].data = handled[a].data
        /\ handled[b].outbound = handled[a].outbound

\* the port an outbound carries
PortOf(ob) ==
  IF "vnext" \in DOMAIN ob.settings
  THEN ob.settings.vnext[1].port
  ELSE ob.settings.servers[1].port

\* C7: every descriptor a decoder returns and every user-derived outbound
\* has an integer port in 1..65535.
C7_PortInRange ==
  /\ \A k \in 1..Len(Made) :
        /\ PortOf(temp_outbounds[k]).t = "int"
        /\ PortOf(temp_outbounds[k]).n \in 1..65535
  /\ \A j \in 1..Len(handled) :
        (handled[j].kind \in {"vless", "trojan", "ss"} /\ handled[j].data # None) =>
           handled[j].data.port.n \in 1..65535
====
